---- MODULE Spec2Model ----
(***************************************************************************)
(* Model of web-health-check: the link checker (modules/linkChecker.js),   *)
(* the page fetch of runHealthCheck (src/healthChecker.js) and of the      *)
(* menu's runLinkChecker (src/menuSystem.js, in index.js), the module      *)
(* loader, the extraction of the links, the command line and the menu.     *)
(*                                                                         *)
(* JavaScript strings are sequences of tokens (<<>> is the empty string,   *)
(* " " a whitespace token); `null' is the reserved one-token sequence      *)
(* Null; an object is a record with exactly the keys the code gives it, so *)
(* that a missing key is a missing field.                                  *)
(***************************************************************************)
EXTENDS Integers, Sequences, FiniteSets, TLC

VARIABLES
  input,        \* pageData.links, as the sequence of the hrefs
  cpc,          \* position of checkLinks
  links,        \* const links (linkChecker.js:14)
  batches,      \* const batches (linkChecker.js:146)
  bi,           \* index of the batch the for-of loop is at
  proc,         \* one checkLink(url) call per element of links
  results,      \* const results = {working, notWorking}
  formatted,    \* the value checkLinks returns
  entry,        \* which function fetches the page
  fpc,          \* position of the page fetch
  pageBrowser,  \* the browser the page fetch launched
  requested,    \* the modules argument of runHealthCheck
  toRun,        \* the modules still to run
  moduleResults,\* const results of runHealthCheck
  outcome,      \* how the page fetch ended
  dom,          \* the anchors of the loaded document
  pageLinks,    \* pageData.links
  thrown,       \* the error the page fetch is throwing or has thrown
  pageUrl,      \* the URL the page of the page fetch is on
  cli,          \* position of the command line action and of the menu
  cliUrl        \* the <url> argument of the command line

linkVars == <<input, cpc, links, batches, bi, proc, results, formatted>>
fetchVars == <<entry, fpc, pageBrowser, requested, toRun, moduleResults, outcome,
               thrown, pageUrl>>
extractVars == <<dom, pageLinks>>
cliVars == <<cli, cliUrl>>
vars == <<input, cpc, links, batches, bi, proc, results, formatted,
          entry, fpc, pageBrowser, requested, toRun, moduleResults, outcome,
          dom, pageLinks, thrown, pageUrl, cli, cliUrl>>

----------------------------------------------------------------------------
(* Bounds *)

MaxLinks == 3
MaxSiteLinks == 12
MaxLeakLinks == 6

----------------------------------------------------------------------------
(* JavaScript values *)

Null == <<"<null>">>
None == [none |-> TRUE]
NullResponse == [null |-> TRUE]

UrlA == <<"http://h", "/", "a">>
UrlB == <<"http://h", "/", "b">>
UrlR == <<"http://h", "/", "r">>

Hrefs == {<<>>, <<" ">>, UrlA, UrlB}

IsSpace(c) == c = " "

RECURSIVE TrimStart(_)
TrimStart(s) ==
  IF s # <<>> /\ IsSpace(Head(s)) THEN TrimStart(Tail(s)) ELSE s

RECURSIVE TrimEnd(_)
TrimEnd(s) ==
  IF s # <<>> /\ IsSpace(s[Len(s)]) THEN TrimEnd(SubSeq(s, 1, Len(s) - 1)) ELSE s

Trim(s) == TrimEnd(TrimStart(s))

DigitChar == <<"0", "1", "2", "3", "4", "5", "6", "7", "8", "9">>

RECURSIVE NumberToString(_)
NumberToString(n) ==
  IF n < 10 THEN <<DigitChar[n + 1]>>
  ELSE NumberToString(n \div 10) \o <<DigitChar[(n % 10) + 1]>>

IndexOf(s, v) ==
  IF \E i \in 1..Len(s) : s[i] = v
  THEN CHOOSE i \in 1..Len(s) : s[i] = v /\ \A j \in 1..(i - 1) : s[j] # v
  ELSE 0

Min(a, b) == IF a < b THEN a ELSE b

RECURSIVE SeqsUpTo(_, _)
SeqsUpTo(S, n) ==
  IF n = 0 THEN {<<>>}
  ELSE SeqsUpTo(S, n - 1) \cup {Append(s, x) : s \in {t \in SeqsUpTo(S, n - 1) : Len(t) = n - 1}, x \in S}

----------------------------------------------------------------------------
(* checkLinks: the link list and the batches *)

HasHref(href) == href # <<>> /\ Trim(href) # <<>>

RECURSIVE FilterHrefs(_)
FilterHrefs(s) ==
  IF s = <<>> THEN <<>>
  ELSE (IF HasHref(Head(s)) THEN <<Head(s)>> ELSE <<>>) \o FilterHrefs(Tail(s))

LastIndexOf(s, v) ==
  IF \E i \in 1..Len(s) : s[i] = v
  THEN CHOOSE i \in 1..Len(s) : s[i] = v /\ \A j \in (i + 1)..Len(s) : s[j] # v
  ELSE 0

RECURSIVE RemoveDuplicatesKeepLast(_, _)
RemoveDuplicatesKeepLast(self, index) ==
  IF index > Len(self) THEN <<>>
  ELSE (IF LastIndexOf(self, self[index]) = index THEN <<self[index]>> ELSE <<>>)
       \o RemoveDuplicatesKeepLast(self, index + 1)

RECURSIVE RemoveDuplicates(_, _)
RemoveDuplicates(self, index) ==
  IF index > Len(self) THEN <<>>
  ELSE (IF IndexOf(self, self[index]) = index THEN <<self[index]>> ELSE <<>>)
       \o RemoveDuplicates(self, index + 1)

UniqueLinks(hrefs) == RemoveDuplicates(FilterHrefs(hrefs), 1)

batchSize == 5

RECURSIVE MakeBatchesFixedEnd(_, _)
MakeBatchesFixedEnd(ls, i) ==
  IF i >= Len(ls) THEN <<>>
  ELSE <<SubSeq(ls, i + 1, Min(batchSize, Len(ls)))>> \o MakeBatchesFixedEnd(ls, i + batchSize)

RECURSIVE MakeBatches(_, _)
MakeBatches(ls, i) ==
  IF i >= Len(ls) THEN <<>>
  ELSE <<SubSeq(ls, i + 1, Min(i + batchSize, Len(ls)))>> \o MakeBatches(ls, i + batchSize)

----------------------------------------------------------------------------
(* The environment of one link check: what the HTTP client and the browser *)
(* can answer.                                                             *)

\* A page of MaxSiteLinks links whose answers are fixed, link by link: the
\* k-th link always meets the same answers, so that a run over several batches
\* differs from another one only in the order of the completions.
SiteLink(k) == <<"http://s", "/">> \o NumberToString(k)

SiteLinks(n) == [k \in 1..n |-> SiteLink(k)]

SiteIndex(url) ==
  IF \E k \in 1..(MaxSiteLinks + 1) : SiteLink(k) = url
  THEN CHOOSE k \in 1..(MaxSiteLinks + 1) : SiteLink(k) = url
  ELSE 0

OnSite(url) == SiteIndex(url) # 0

SiteScript ==
  << {"axios.200"},
     {"axios.403", "launch.ok", "newPage.ok", "goto.response", "close.ok"},
     {"axios.throw", "launch.throw"},
     {"axios.404"},
     {"axios.400", "launch.ok", "newPage.throw"},
     {"axios.throw", "launch.ok", "newPage.ok", "goto.throw", "close.ok"},
     {"axios.500"} >>

\* A page of links that all answer 403 and whose fallback browser launches
\* but opens no page.
LeakLink(k) == <<"http://t", "/">> \o NumberToString(k)

LeakLinks(n) == [k \in 1..n |-> LeakLink(k)]

OnLeakSite(url) == url # <<>> /\ Head(url) = "http://t"

LeakScript == {"axios.403", "launch.ok", "newPage.throw"}

\* what can happen to a URL: anything off the sites, the script on them
Can(url, event) ==
  /\ OnSite(url) => event \in SiteScript[((SiteIndex(url) - 1) % Len(SiteScript)) + 1]
  /\ OnLeakSite(url) => event \in LeakScript

FastStatuses == {200, 304, 400, 403, 404, 500}

StatusEvent(status) ==
  CASE status = 200 -> "axios.200"
    [] status = 304 -> "axios.304"
    [] status = 400 -> "axios.400"
    [] status = 403 -> "axios.403"
    [] status = 404 -> "axios.404"
    [] status = 500 -> "axios.500"

FastResponses(url) ==
  { r \in [status : FastStatuses, responseUrl : {url}]
             \cup {[status |-> 200, responseUrl |-> UrlR]} :
      /\ Can(url, StatusEvent(r.status))
      /\ (OnSite(url) \/ OnLeakSite(url)) => r.responseUrl = url }

AxiosErrors ==
  { [code |-> <<"ECONNREFUSED">>, message |-> <<"connect ", "ECONNREFUSED">>],
    [code |-> <<>>, message |-> <<"socket hang up">>] }

AxiosErrorsAt(url) ==
  { e \in AxiosErrors : /\ Can(url, "axios.throw")
                        /\ OnSite(url) => e.code # <<>> }

PageResponses(url) ==
  { r \in { [status |-> 200, url |-> url], [status |-> 200, url |-> UrlR],
            [status |-> 404, url |-> url] } :
      /\ Can(url, "goto.response")
      /\ OnSite(url) => r = [status |-> 200, url |-> url] }

LaunchError == [code |-> <<>>, message |-> <<"Failed to launch the browser process">>]
NewPageError == [code |-> <<>>, message |-> <<"Protocol error: Target.createTarget">>]
GotoError == [code |-> <<>>, message |-> <<"Navigation timeout of 15000 ms exceeded">>]
CloseError == [code |-> <<>>, message |-> <<"Protocol error: Connection closed">>]

----------------------------------------------------------------------------
(* checkLink(url), linkChecker.js:40-142 *)

NewCall(url) ==
  [ url |-> url, pc |-> "idle", response |-> None, error |-> None,
    pageResponse |-> None, puppeteerError |-> None, gotoError |-> None,
    browser |-> "none", session |-> <<>>, launches |-> 0, result |-> None ]

Return(p, r) == [p EXCEPT !.pc = "done", !.result = r]

IsAmbiguousAnyFailure(status) == status >= 400

IsAmbiguous(status) == status = 403 \/ status = 400

IsWorkingStatus(status) == status >= 200 /\ status < 400

HttpStatusErrorNoStatus(status) == <<"HTTP status ">>

HttpStatusError(status) == <<"HTTP status ">> \o NumberToString(status)

RedirectUrlAlways(finalUrl, url) == finalUrl

RedirectUrl(finalUrl, url) == IF finalUrl # url THEN finalUrl ELSE Null

MessageOnly(error) == error.message

CodeOrMessage(error) == IF error.code # <<>> THEN error.code ELSE error.message

\* linkChecker.js:67-73 and 122-128
PuppeteerResult(url, pageResponse) ==
  [ url |-> url, status |-> pageResponse.status, working |-> TRUE,
    checkedWith |-> "puppeteer", redirectUrl |-> RedirectUrl(pageResponse.url, url) ]

BothFailedResultStatusZero(url, response) ==
  [ url |-> url, status |-> 0, working |-> FALSE,
    error |-> <<"Failed to launch the browser process">>, checkedWith |-> "both" ]

\* linkChecker.js:77-83
BothFailedResult(url, response) ==
  [ url |-> url, status |-> response.status, working |-> FALSE,
    error |-> HttpStatusError(response.status), checkedWith |-> "both" ]

\* linkChecker.js:88-104
AxiosResult(url, response) ==
  IF IsWorkingStatus(response.status)
  THEN [ url |-> url, status |-> response.status, working |-> TRUE,
         checkedWith |-> "axios",
         redirectUrl |-> RedirectUrl(response.responseUrl, url) ]
  ELSE [ url |-> url, status |-> response.status, working |-> FALSE,
         checkedWith |-> "axios", error |-> HttpStatusError(response.status) ]

NetworkErrorResultNoError(url, error) ==
  [ url |-> url, status |-> 0, working |-> FALSE, checkedWith |-> "both" ]

\* linkChecker.js:134-140
NetworkErrorResult(url, error) ==
  [ url |-> url, status |-> 0, working |-> FALSE, checkedWith |-> "both",
    error |-> CodeOrMessage(error) ]

InCatchBlock(p) == p.error # None

\* puppeteer.launch is called (linkChecker.js:54 and 109)
CallLaunch(p) == [p EXCEPT !.pc = "launch", !.launches = @ + 1]

\* after the response of axios.get (linkChecker.js:50-104)
AfterResponse(p) ==
  IF IsAmbiguous(p.response.status) THEN CallLaunch(p)
  ELSE Return(p, AxiosResult(p.url, p.response))

CatchInTryRethrows(p, e) == [p EXCEPT !.puppeteerError = e, !.pc = "rejected"]

\* catch (puppeteerError) of linkChecker.js:75-84
CatchInTry(p, e) ==
  Return([p EXCEPT !.puppeteerError = e], BothFailedResult(p.url, p.response))

CatchInCatchRethrows(p, e) == [p EXCEPT !.puppeteerError = e, !.pc = "rejected"]

\* catch (puppeteerError) of linkChecker.js:130-132, then 134-140
CatchInCatch(p, e) ==
  Return([p EXCEPT !.puppeteerError = e], NetworkErrorResult(p.url, p.error))

FallbackThrew(p, e) ==
  IF InCatchBlock(p) THEN CatchInCatch(p, e) ELSE CatchInTry(p, e)

\* after await browser.close() (linkChecker.js:65-74 and 120-129), and what
\* follows the inner try when there was no page response
AfterClose(p) ==
  IF p.pageResponse # NullResponse
  THEN Return(p, PuppeteerResult(p.url, p.pageResponse))
  ELSE IF InCatchBlock(p)
       THEN Return(p, NetworkErrorResult(p.url, p.error))
       ELSE Return(p, AxiosResult(p.url, p.response))

----------------------------------------------------------------------------
(* checkLinks(page, pageData), linkChecker.js:12-192 *)

Calls(bs) == [b \in 1..Len(bs) |-> [j \in 1..Len(bs[b]) |-> NewCall(bs[b][j])]]

\* linkChecker.js:14-22 and 144-150
CheckLinksEntry ==
  /\ cpc = "call"
  /\ links' = UniqueLinks(input)
  /\ batches' = MakeBatches(UniqueLinks(input), 0)
  /\ proc' = Calls(MakeBatches(UniqueLinks(input), 0))
  /\ results' = [working |-> <<>>, notWorking |-> <<>>]
  /\ bi' = 1
  /\ cpc' = "loop"
  /\ UNCHANGED <<input, formatted>>
  /\ UNCHANGED <<fetchVars, extractVars, cliVars>>

StartAllBatches ==
  /\ cpc = "loop"
  /\ bi <= Len(batches)
  /\ proc' = [b \in DOMAIN proc |->
                IF b >= bi THEN [j \in DOMAIN proc[b] |-> [proc[b][j] EXCEPT !.pc = "axios"]]
                ELSE proc[b]]
  /\ cpc' = "await"
  /\ UNCHANGED <<input, links, batches, bi, results, formatted>>
  /\ UNCHANGED <<fetchVars, extractVars, cliVars>>

\* batch.map(link => checkLink(link)): every call runs up to its axios.get
\* (linkChecker.js:153, 41-43)
StartBatch ==
  /\ cpc = "loop"
  /\ bi <= Len(batches)
  /\ proc' = [proc EXCEPT ![bi] = [j \in DOMAIN proc[bi] |-> [proc[bi][j] EXCEPT !.pc = "axios"]]]
  /\ cpc' = "await"
  /\ UNCHANGED <<input, links, batches, bi, results, formatted>>
  /\ UNCHANGED <<fetchVars, extractVars, cliVars>>

Running(b, j) == cpc \in {"await", "rejected"} /\ b \in DOMAIN proc /\ j \in DOMAIN proc[b]

Step(b, j, q) ==
  /\ proc' = [proc EXCEPT ![b][j] = q]
  /\ UNCHANGED <<input, cpc, links, batches, bi, results, formatted>>
  /\ UNCHANGED <<fetchVars, extractVars, cliVars>>

\* axios.get answers, whatever the status (linkChecker.js:43-50)
AxiosResponds ==
  \E b \in DOMAIN proc : \E j \in DOMAIN proc[b] :
    /\ Running(b, j)
    /\ proc[b][j].pc = "axios"
    /\ \E r \in FastResponses(proc[b][j].url) :
         Step(b, j, AfterResponse([proc[b][j] EXCEPT !.response = r]))

\* axios.get throws (linkChecker.js:105-109)
AxiosThrows ==
  \E b \in DOMAIN proc : \E j \in DOMAIN proc[b] :
    /\ Running(b, j)
    /\ proc[b][j].pc = "axios"
    /\ \E e \in AxiosErrorsAt(proc[b][j].url) :
         Step(b, j, CallLaunch([proc[b][j] EXCEPT !.error = e]))

SharedSession(b, j) == <<"browser">>

\* the browser object puppeteer.launch resolves with: a new one for every
\* launch, held by the const browser of the call that launched it
NewSession(b, j) == <<"browser", b, j, proc[b][j].launches>>

\* await puppeteer.launch (linkChecker.js:54 and 109)
LaunchSettles ==
  \E b \in DOMAIN proc : \E j \in DOMAIN proc[b] :
    /\ Running(b, j)
    /\ proc[b][j].pc = "launch"
    /\ \/ /\ Can(proc[b][j].url, "launch.ok")
          /\ Step(b, j, [proc[b][j] EXCEPT !.browser = "open", !.session = NewSession(b, j),
                                           !.pc = "newPage"])
       \/ /\ Can(proc[b][j].url, "launch.throw")
          /\ Step(b, j, FallbackThrew(proc[b][j], LaunchError))

\* await browser.newPage (linkChecker.js:55 and 110)
NewPageSettles ==
  \E b \in DOMAIN proc : \E j \in DOMAIN proc[b] :
    /\ Running(b, j)
    /\ proc[b][j].pc = "newPage"
    /\ \/ /\ Can(proc[b][j].url, "newPage.ok")
          /\ Step(b, j, [proc[b][j] EXCEPT !.pc = "goto"])
       \/ /\ Can(proc[b][j].url, "newPage.throw")
          /\ Step(b, j, FallbackThrew(proc[b][j], NewPageError))

\* await page.goto(...).catch(e => null), then browser.close is called
\* (linkChecker.js:58-63 and 113-118)
GotoSettles ==
  \E b \in DOMAIN proc : \E j \in DOMAIN proc[b] :
    /\ Running(b, j)
    /\ proc[b][j].pc = "goto"
    /\ \/ \E r \in PageResponses(proc[b][j].url) :
            Step(b, j, [proc[b][j] EXCEPT !.pageResponse = r, !.pc = "close"])
       \/ /\ Can(proc[b][j].url, "goto.null")
          /\ Step(b, j, [proc[b][j] EXCEPT !.pageResponse = NullResponse, !.pc = "close"])
       \/ /\ Can(proc[b][j].url, "goto.throw")
          /\ Step(b, j, [proc[b][j] EXCEPT !.pageResponse = NullResponse,
                                           !.gotoError = GotoError, !.pc = "close"])

\* await browser.close (linkChecker.js:63-74 and 118-129); a close that
\* throws may or may not have ended the browser
CloseSettles ==
  \E b \in DOMAIN proc : \E j \in DOMAIN proc[b] :
    /\ Running(b, j)
    /\ proc[b][j].pc = "close"
    /\ \/ /\ Can(proc[b][j].url, "close.ok")
          /\ Step(b, j, AfterClose([proc[b][j] EXCEPT !.browser = "closed"]))
       \/ /\ Can(proc[b][j].url, "close.throw")
          /\ \E left \in {"open", "closed"} :
               Step(b, j, FallbackThrew([proc[b][j] EXCEPT !.browser = left], CloseError))

RECURSIVE PushAllDropBroken(_, _)
PushAllDropBroken(res, batchResults) ==
  IF batchResults = <<>> THEN res
  ELSE PushAllDropBroken(
         IF Head(batchResults).working
         THEN [res EXCEPT !.working = Append(@, Head(batchResults))]
         ELSE res,
         Tail(batchResults))

RECURSIVE UnshiftAll(_, _)
UnshiftAll(res, batchResults) ==
  IF batchResults = <<>> THEN res
  ELSE UnshiftAll(
         IF Head(batchResults).working
         THEN [res EXCEPT !.working = <<Head(batchResults)>> \o @]
         ELSE [res EXCEPT !.notWorking = <<Head(batchResults)>> \o @],
         Tail(batchResults))

RECURSIVE PushAll(_, _)
PushAll(res, batchResults) ==
  IF batchResults = <<>> THEN res
  ELSE PushAll(
         IF Head(batchResults).working
         THEN [res EXCEPT !.working = Append(@, Head(batchResults))]
         ELSE [res EXCEPT !.notWorking = Append(@, Head(batchResults))],
         Tail(batchResults))

BatchSettlesNoCooldown ==
  /\ cpc = "await"
  /\ \A j \in DOMAIN proc[bi] : proc[bi][j].pc = "done"
  /\ results' = PushAll(results, [j \in DOMAIN proc[bi] |-> proc[bi][j].result])
  /\ cpc' = "loop"
  /\ bi' = bi + 1
  /\ UNCHANGED <<input, links, batches, proc, formatted>>
  /\ UNCHANGED <<fetchVars, extractVars, cliVars>>

\* await Promise.all(...) settles, the results are pushed and the timer is
\* set (linkChecker.js:153-164)
BatchSettles ==
  /\ cpc = "await"
  /\ IF \E j \in DOMAIN proc[bi] : proc[bi][j].pc = "rejected"
     THEN /\ cpc' = "rejected"
          /\ UNCHANGED results
     ELSE /\ \A j \in DOMAIN proc[bi] : proc[bi][j].pc = "done"
          /\ results' = PushAll(results, [j \in DOMAIN proc[bi] |-> proc[bi][j].result])
          /\ cpc' = "cooldown"
  /\ UNCHANGED <<input, links, batches, bi, proc, formatted>>
  /\ UNCHANGED <<fetchVars, extractVars, cliVars>>

\* the setTimeout of linkChecker.js:164 fires
CooldownElapses ==
  /\ cpc = "cooldown"
  /\ bi' = bi + 1
  /\ cpc' = "loop"
  /\ UNCHANGED <<input, links, batches, proc, results, formatted>>
  /\ UNCHANGED <<fetchVars, extractVars, cliVars>>

FormatResultsAlwaysPass(res) ==
  << [ test |-> "Working Links", status |-> "pass",
       details |-> [count |-> Len(res.working), links |-> res.working] ],
     [ test |-> "Broken Links", status |-> "pass",
       details |-> [count |-> Len(res.notWorking), links |-> res.notWorking] ] >>

\* linkChecker.js:168-189
FormatResults(res) ==
  << [ test |-> "Working Links", status |-> "pass",
       details |-> [count |-> Len(res.working), links |-> res.working] ],
     [ test |-> "Broken Links",
       status |-> IF Len(res.notWorking) = 0 THEN "pass" ELSE "fail",
       details |-> [count |-> Len(res.notWorking), links |-> res.notWorking] ] >>

\* linkChecker.js:167-191
CheckLinksReturns ==
  /\ cpc = "loop"
  /\ bi > Len(batches)
  /\ formatted' = FormatResults(results)
  /\ cpc' = "returned"
  /\ UNCHANGED <<input, links, batches, bi, proc, results>>
  /\ UNCHANGED <<fetchVars, extractVars, cliVars>>

----------------------------------------------------------------------------
(* The page fetch: runHealthCheck (healthChecker.js:10-76) and the menu's  *)
(* runLinkChecker (index.js:205-399)                                       *)

ModuleFiles ==
  << "basicSeo", "brandingAndSocialSharing", "linkAnalysis", "linkChecker",
     "mobileResponsiveness", "securityChecks" >>

RequestableNames == {"basicSeo", "linkChecker", "missing"}

All == <<"<all>">>

ModuleExists(moduleName) == \E i \in DOMAIN ModuleFiles : ModuleFiles[i] = moduleName

RECURSIVE LoadEachStopAtMissing(_, _)
LoadEachStopAtMissing(modulesToLoad, modules) ==
  IF modulesToLoad = <<>> \/ ~ModuleExists(Head(modulesToLoad)) THEN modules
  ELSE LoadEachStopAtMissing(Tail(modulesToLoad),
                IF IndexOf(modules, Head(modulesToLoad)) = 0
                THEN Append(modules, Head(modulesToLoad))
                ELSE modules)

\* the for loop of moduleLoader.js:27-44; modules is the object, as the
\* sequence of its keys
RECURSIVE LoadEach(_, _)
LoadEach(modulesToLoad, modules) ==
  IF modulesToLoad = <<>> THEN modules
  ELSE LoadEach(Tail(modulesToLoad),
                IF ModuleExists(Head(modulesToLoad)) /\ IndexOf(modules, Head(modulesToLoad)) = 0
                THEN Append(modules, Head(modulesToLoad))
                ELSE modules)

\* moduleLoader.js:12-46; the keys of the object it returns, in order
LoadModules(moduleNames) ==
  LoadEach(IF moduleNames = All THEN ModuleFiles ELSE moduleNames, <<>>)

FetchIdle ==
  /\ entry = "none" /\ fpc = "idle" /\ pageBrowser = "none" /\ requested = <<>>
  /\ toRun = <<>> /\ moduleResults = <<>> /\ outcome = "none"
  /\ dom = <<>> /\ pageLinks = <<>>
  /\ thrown = None /\ pageUrl = "none"
  /\ cli = "none" /\ cliUrl = <<>>

LinkIdle ==
  /\ input = <<>> /\ cpc = "idle" /\ links = <<>> /\ batches = <<>> /\ bi = 0
  /\ proc = <<>> /\ results = [working |-> <<>>, notWorking |-> <<>>]
  /\ formatted = <<>>

FetchStep(pc, browser, out) ==
  /\ fpc' = pc
  /\ pageBrowser' = browser
  /\ outcome' = out
  /\ UNCHANGED <<entry, requested, toRun, moduleResults, thrown, pageUrl>>
  /\ UNCHANGED <<linkVars, extractVars, cliVars>>

SetViewportError == [code |-> <<>>, message |-> <<"Protocol error (Emulation.setDeviceMetricsOverride)">>]
EvaluateError == [code |-> <<>>, message |-> <<"Execution context was destroyed">>]
ReaddirError == [code |-> <<"EACCES">>, message |-> <<"EACCES: permission denied, scandir">>]
ModuleError(moduleName) == [code |-> <<>>, message |-> <<"thrown by ", moduleName>>]

HealthCheckThrowsSkipFinally(inTry, e) ==
  /\ fpc' = "end"
  /\ outcome' = "rejected"
  /\ thrown' = e
  /\ UNCHANGED <<entry, pageBrowser, requested, toRun, moduleResults, pageUrl>>
  /\ UNCHANGED <<linkVars, extractVars, cliVars>>

\* an exception leaves the function: runHealthCheck has no catch, and outside
\* its try nothing runs; inside it the finally runs first
HealthCheckThrows(inTry, e) ==
  /\ fpc' = IF inTry THEN "finallyThrow" ELSE "end"
  /\ outcome' = IF inTry THEN outcome ELSE "rejected"
  /\ thrown' = e
  /\ UNCHANGED <<entry, pageBrowser, requested, toRun, moduleResults, pageUrl>>
  /\ UNCHANGED <<linkVars, extractVars, cliVars>>

\* catch (error) of runLinkChecker, index.js:395-398
LinkCheckerCatches == FetchStep("end", pageBrowser, "errorPrinted")

\* const browser = await puppeteer.launch (healthChecker.js:11)
HCLaunch ==
  /\ entry = "runHealthCheck" /\ fpc = "launch"
  /\ \/ FetchStep("newPage", "open", outcome)
     \/ HealthCheckThrows(FALSE, LaunchError)

\* const page = await browser.newPage (healthChecker.js:12)
HCNewPage ==
  /\ entry = "runHealthCheck" /\ fpc = "newPage"
  /\ \/ FetchStep("setViewport", pageBrowser, outcome)
     \/ HealthCheckThrows(FALSE, NewPageError)

\* await page.setViewport (healthChecker.js:16)
HCSetViewport ==
  /\ entry = "runHealthCheck" /\ fpc = "setViewport"
  /\ \/ FetchStep("goto", pageBrowser, outcome)
     \/ HealthCheckThrows(TRUE, SetViewportError)

\* await page.goto (healthChecker.js:19-22)
HCGoto ==
  /\ entry = "runHealthCheck" /\ fpc = "goto"
  /\ \/ /\ fpc' = "extract"
        /\ pageUrl' = "original"
        /\ UNCHANGED <<entry, pageBrowser, requested, toRun, moduleResults, outcome, thrown>>
        /\ UNCHANGED <<linkVars, extractVars, cliVars>>
     \/ HealthCheckThrows(TRUE, GotoError)

\* const pageData = {...} (healthChecker.js:25-62)
HCExtract ==
  /\ entry = "runHealthCheck" /\ fpc = "extract"
  /\ \/ FetchStep("loadModules", pageBrowser, outcome)
     \/ HealthCheckThrows(TRUE, EvaluateError)

\* const healthModules = await loadModules(modules) (healthChecker.js:65-66)
HCLoadModules ==
  /\ entry = "runHealthCheck" /\ fpc = "loadModules"
  /\ \/ /\ toRun' = LoadModules(requested)
        /\ fpc' = "modules"
        /\ UNCHANGED <<entry, pageBrowser, requested, moduleResults, outcome, thrown, pageUrl>>
        /\ UNCHANGED <<linkVars, extractVars, cliVars>>
     \/ HealthCheckThrows(TRUE, ReaddirError)

\* the entry of the history of the page that goBack leads to
PreviousEntry(u) ==
  CASE u = "favicon" -> "original"
    [] u = "original" -> "about:blank"
    [] OTHER -> u

\* where the favicon probe leaves the page (brandingAndSocialSharing.js:47-60):
\* no probe when the document names its icon; goto commits and goBack leads
\* back; goto rejects before anything is committed (timeout, download) and
\* goBack leaves the loaded document; goBack rejects after or without a commit
FaviconProbe(u) ==
  {u, PreviousEntry("favicon"), PreviousEntry(u), "favicon"}

\* the URL the page is on when the module returns
PageAfter(moduleName, u) ==
  IF moduleName = "brandingAndSocialSharing" THEN FaviconProbe(u) ELSE {u}

\* results[moduleName] = await moduleFunc(page, pageData) (healthChecker.js:68-70)
HCRunModule ==
  /\ entry = "runHealthCheck" /\ fpc = "modules"
  /\ toRun # <<>>
  /\ \/ /\ moduleResults' = Append(moduleResults, Head(toRun))
        /\ toRun' = Tail(toRun)
        /\ pageUrl' \in PageAfter(Head(toRun), pageUrl)
        /\ UNCHANGED <<entry, fpc, pageBrowser, requested, outcome, thrown>>
        /\ UNCHANGED <<linkVars, extractVars, cliVars>>
     \/ HealthCheckThrows(TRUE, ModuleError(Head(toRun)))

\* return results (healthChecker.js:72)
HCReturn ==
  /\ entry = "runHealthCheck" /\ fpc = "modules"
  /\ toRun = <<>>
  /\ FetchStep("finallyReturn", pageBrowser, outcome)

\* finally { await browser.close() } (healthChecker.js:73-75)
HCFinally ==
  /\ entry = "runHealthCheck" /\ fpc \in {"finallyReturn", "finallyThrow"}
  /\ \/ FetchStep("end", "closed", IF fpc = "finallyReturn" THEN "returned" ELSE "rejected")
     \/ \E left \in {"open", "closed"} :
          /\ fpc' = "end"
          /\ pageBrowser' = left
          /\ outcome' = "rejected"
          /\ thrown' = CloseError
          /\ UNCHANGED <<entry, requested, toRun, moduleResults, pageUrl>>
          /\ UNCHANGED <<linkVars, extractVars, cliVars>>

\* const browser = await puppeteer.launch (index.js:210)
LCLaunch ==
  /\ entry = "runLinkChecker" /\ fpc = "launch"
  /\ \/ FetchStep("newPage", "open", outcome)
     \/ LinkCheckerCatches

\* const page = await browser.newPage (index.js:211)
LCNewPage ==
  /\ entry = "runLinkChecker" /\ fpc = "newPage"
  /\ \/ FetchStep("goto", pageBrowser, outcome)
     \/ LinkCheckerCatches

\* await page.goto (index.js:213-216)
LCGoto ==
  /\ entry = "runLinkChecker" /\ fpc = "goto"
  /\ \/ /\ fpc' = "extract"
        /\ pageUrl' = "original"
        /\ UNCHANGED <<entry, pageBrowser, requested, toRun, moduleResults, outcome, thrown>>
        /\ UNCHANGED <<linkVars, extractVars, cliVars>>
     \/ LinkCheckerCatches

\* links: await page.evaluate (index.js:219-335)
LCExtract ==
  /\ entry = "runLinkChecker" /\ fpc = "extract"
  /\ \/ FetchStep("close", pageBrowser, outcome)
     \/ LinkCheckerCatches

\* await browser.close (index.js:338)
LCClose ==
  /\ entry = "runLinkChecker" /\ fpc = "close"
  /\ \/ FetchStep("checkLinks", "closed", outcome)
     \/ \E left \in {"open", "closed"} : FetchStep("end", left, "errorPrinted")

\* import, checkLinks, the printing and the wait for Enter (index.js:340-393)
LCCheckLinks ==
  /\ entry = "runLinkChecker" /\ fpc = "checkLinks"
  /\ \/ FetchStep("end", pageBrowser, "completed")
     \/ LinkCheckerCatches

MaxModules == 2

InitFetch ==
  /\ LinkIdle
  /\ entry \in {"runHealthCheck", "runLinkChecker"}
  /\ requested \in IF entry = "runHealthCheck"
                   THEN {All} \cup SeqsUpTo(RequestableNames, MaxModules)
                   ELSE {<<>>}
  /\ fpc = "launch"
  /\ pageBrowser = "none"
  /\ toRun = <<>>
  /\ moduleResults = <<>>
  /\ outcome = "none"
  /\ dom = <<>>
  /\ pageLinks = <<>>
  /\ thrown = None
  /\ pageUrl = "none"
  /\ cli = "none"
  /\ cliUrl = <<>>

NextFetch ==
  \/ HCLaunch
  \/ HCNewPage
  \/ HCSetViewport
  \/ HCGoto
  \/ HCExtract
  \/ HCLoadModules
  \/ HCRunModule
  \/ HCReturn
  \/ HCFinally
  \/ LCLaunch
  \/ LCNewPage
  \/ LCGoto
  \/ LCExtract
  \/ LCClose
  \/ LCCheckLinks

SpecFetch == InitFetch /\ [][NextFetch]_vars

Init ==
  /\ input \in SeqsUpTo(Hrefs, MaxLinks)
  /\ cpc = "call"
  /\ links = <<>>
  /\ batches = <<>>
  /\ bi = 0
  /\ proc = <<>>
  /\ results = [working |-> <<>>, notWorking |-> <<>>]
  /\ formatted = <<>>
  /\ FetchIdle

Next ==
  \/ CheckLinksEntry
  \/ StartBatch
  \/ AxiosResponds
  \/ AxiosThrows
  \/ LaunchSettles
  \/ NewPageSettles
  \/ GotoSettles
  \/ CloseSettles
  \/ BatchSettles
  \/ CooldownElapses
  \/ CheckLinksReturns

Spec == Init /\ [][Next]_vars

\* checkLinks is run as a module of runHealthCheck (healthChecker.js:69), on
\* the open page, over the links of the site, some of them with an empty href and
\* a repeated link behind them, and over the links that leave their browser
BatchInputs ==
  {SiteLinks(n) : n \in 0..MaxSiteLinks}
    \cup {SiteLinks(n) \o << <<>>, SiteLink(1) >> : n \in 1..MaxSiteLinks}
    \cup {LeakLinks(n) : n \in 1..MaxLeakLinks}

InitBatch ==
  /\ input \in BatchInputs
  /\ cpc = "call"
  /\ links = <<>>
  /\ batches = <<>>
  /\ bi = 0
  /\ proc = <<>>
  /\ results = [working |-> <<>>, notWorking |-> <<>>]
  /\ formatted = <<>>
  /\ entry = "runHealthCheck"
  /\ fpc = "modules"
  /\ pageBrowser = "open"
  /\ pageUrl = "original"
  /\ requested = <<"linkChecker">>
  /\ toRun = <<"linkChecker">>
  /\ moduleResults = <<>>
  /\ outcome = "none"
  /\ thrown = None
  /\ dom = <<>>
  /\ pageLinks = <<>>
  /\ cli = "none"
  /\ cliUrl = <<>>

SpecBatch == InitBatch /\ [][Next]_vars

\* every pending request, launch, navigation, close and timer settles, and the
\* event loop runs what is ready
SpecBatchFair == InitBatch /\ [][Next]_vars /\ WF_vars(Next)

----------------------------------------------------------------------------
(* The extraction of the links: page.evaluate of runHealthCheck            *)
(* (healthChecker.js:47-53) and of runLinkChecker (index.js:220-334)       *)

MaxAnchors == 2

\* window.location of the loaded page
Origin == <<"http://h">>
Pathname == <<"/", "dir", "/", "page">>
DocumentUrl == Origin \o Pathname

\* the href attribute of an anchor as written; Null when it has none
HrefAttributes ==
  { Null, <<>>, <<"#">>, <<"#", "s">>,
    <<"javascript:", "void(0)">>, <<"mailto:", "a@b">>, <<"tel:", "123">>,
    <<"/", "x">>, <<"x">>, <<"..", "/", "x">>, <<"/", "/", "o", "/", "x">>,
    <<"http://h", "/", "x">>, <<"http://h">> }

Anchors == [attr : HrefAttributes, class : {"", "group flex"}]

StartsWith(s, token) == s # <<>> /\ Head(s) = token

StartsWithHttp(s) == s # <<>> /\ Head(s) \in {"http://h", "http://o", "http://s"}

StartsWithSlashSlash(s) == Len(s) >= 2 /\ s[1] = "/" /\ s[2] = "/"

HostOrigin(host) == IF host = "o" THEN "http://o" ELSE "http://h"

PopSegment(out) == IF Len(out) >= 3 THEN SubSeq(out, 1, Len(out) - 2) ELSE <<"/">>

RECURSIVE RemoveDotSegments(_, _)
RemoveDotSegments(in, out) ==
  IF in = <<>> THEN out
  ELSE IF Head(in) = ".."
       THEN RemoveDotSegments(IF Len(in) >= 2 THEN Tail(Tail(in)) ELSE Tail(in), PopSegment(out))
       ELSE RemoveDotSegments(Tail(in), Append(out, Head(in)))

LastSlash(path) ==
  IF \E i \in DOMAIN path : path[i] = "/"
  THEN CHOOSE i \in DOMAIN path : path[i] = "/" /\ \A j \in (i + 1)..Len(path) : path[j] # "/"
  ELSE 0

\* path.substring(0, path.lastIndexOf('/') + 1) (index.js:244)
BasePath(path) == SubSeq(path, 1, LastSlash(path))

\* a.href: the browser resolves the attribute against the document URL
ResolvedHref(attr) ==
  IF attr = Null THEN <<>>
  ELSE IF attr = <<>> THEN DocumentUrl
  ELSE IF Head(attr) = "#" THEN DocumentUrl \o attr
  ELSE IF Head(attr) \in {"javascript:", "mailto:", "tel:"} THEN attr
  ELSE IF StartsWithHttp(attr) THEN (IF Len(attr) = 1 THEN attr \o <<"/">> ELSE attr)
  ELSE IF StartsWithSlashSlash(attr)
       THEN <<HostOrigin(attr[3])>> \o SubSeq(attr, 4, Len(attr))
  ELSE IF Head(attr) = "/" THEN Origin \o RemoveDotSegments(attr, <<>>)
  ELSE Origin \o RemoveDotSegments(BasePath(Pathname) \o attr, <<>>)

\* index.js:231-235, 267-271 and 302-306
SkipHref(href) ==
  \/ href = <<>>
  \/ href = <<"#">>
  \/ StartsWith(href, "javascript:")
  \/ StartsWith(href, "mailto:")
  \/ StartsWith(href, "tel:")

\* index.js:240-246, 276-282 and 311-317
MakeAbsolute(href) ==
  IF StartsWith(href, "/") /\ ~StartsWithSlashSlash(href) THEN Origin \o href
  ELSE IF ~StartsWithHttp(href) /\ ~StartsWithSlashSlash(href)
       THEN Origin \o BasePath(Pathname) \o href
       ELSE href

\* a.href || a.getAttribute('href') || '' (index.js:228)
AnchorHref(a) ==
  IF ResolvedHref(a.attr) # <<>> THEN ResolvedHref(a.attr)
  ELSE IF a.attr # Null /\ a.attr # <<>> THEN a.attr
  ELSE <<>>

\* Method 1 (index.js:225-254)
RECURSIVE DomPass(_)
DomPass(anchors) ==
  IF anchors = <<>> THEN <<>>
  ELSE (IF SkipHref(AnchorHref(Head(anchors))) THEN <<>>
        ELSE <<[href |-> MakeAbsolute(AnchorHref(Head(anchors))), source |-> "dom"]>>)
       \o DomPass(Tail(anchors))

\* the matches of hrefRegex in document.documentElement.outerHTML
\* (index.js:257-264): the attribute values as written, when not empty
RECURSIVE HtmlHrefs(_)
HtmlHrefs(anchors) ==
  IF anchors = <<>> THEN <<>>
  ELSE (IF Head(anchors).attr \notin {Null, <<>>} THEN <<Head(anchors).attr>> ELSE <<>>)
       \o HtmlHrefs(Tail(anchors))

\* the matches of specificLinkRegex (index.js:297-299)
RECURSIVE GroupFlexHrefs(_)
GroupFlexHrefs(anchors) ==
  IF anchors = <<>> THEN <<>>
  ELSE (IF Head(anchors).attr \notin {Null, <<>>} /\ Head(anchors).class = "group flex"
        THEN <<Head(anchors).attr>> ELSE <<>>)
       \o GroupFlexHrefs(Tail(anchors))

HrefsOf(found) == [i \in DOMAIN found |-> found[i].href]

\* Methods 2 and 3 (index.js:263-294 and 298-329): foundUrls is the set of the
\* hrefs of found
RECURSIVE ScanPass(_, _, _)
ScanPass(matches, found, source) ==
  IF matches = <<>> THEN found
  ELSE ScanPass(Tail(matches),
                IF SkipHref(Head(matches))
                     \/ MakeAbsolute(Head(matches)) \in {found[i].href : i \in DOMAIN found}
                THEN found
                ELSE Append(found, [href |-> MakeAbsolute(Head(matches)), source |-> source]),
                source)

\* index.js:220-334
MenuExtractLinks(anchors) ==
  ScanPass(GroupFlexHrefs(anchors),
           ScanPass(HtmlHrefs(anchors), DomPass(anchors), "regex"),
           "specific-pattern")

\* healthChecker.js:47-53
SnapshotLinks(anchors) == [i \in DOMAIN anchors |-> [href |-> ResolvedHref(anchors[i].attr)]]

\* links: await page.evaluate(...)
EvaluateLinks ==
  /\ fpc = "extract"
  /\ pageLinks' = IF entry = "runHealthCheck" THEN SnapshotLinks(dom) ELSE MenuExtractLinks(dom)
  /\ fpc' = "extracted"
  /\ UNCHANGED <<entry, pageBrowser, requested, toRun, moduleResults, outcome, dom>>
  /\ UNCHANGED <<thrown, pageUrl>>
  /\ UNCHANGED <<linkVars, cliVars>>

\* checkLinks(page, pageData) is called: by the module loop of runHealthCheck
\* (healthChecker.js:69) or by runLinkChecker (index.js:346)
CallCheckLinks ==
  /\ fpc = "extracted"
  /\ cpc = "idle"
  /\ input' = HrefsOf(pageLinks)
  /\ cpc' = "call"
  /\ fpc' = "checkLinks"
  /\ UNCHANGED <<links, batches, bi, proc, results, formatted>>
  /\ UNCHANGED <<entry, pageBrowser, requested, toRun, moduleResults, outcome>>
  /\ UNCHANGED <<thrown, pageUrl>>
  /\ UNCHANGED <<extractVars, cliVars>>

InitExtract ==
  /\ LinkIdle
  /\ entry \in {"runHealthCheck", "runLinkChecker"}
  /\ dom \in SeqsUpTo(Anchors, MaxAnchors)
  /\ pageLinks = <<>>
  /\ fpc = "extract"
  /\ pageBrowser = "open"
  /\ requested = <<>>
  /\ toRun = <<>>
  /\ moduleResults = <<>>
  /\ outcome = "none"
  /\ thrown = None
  /\ pageUrl = "original"
  /\ cli = "none"
  /\ cliUrl = <<>>

NextExtract ==
  \/ EvaluateLinks
  \/ CallCheckLinks
  \/ CheckLinksEntry

SpecExtract == InitExtract /\ [][NextExtract]_vars

----------------------------------------------------------------------------
(* The command line action (index.js:20-91) and the menu: showMenu,        *)
(* runWebHealthCheck and runLinkChecker (index.js:106-399)                 *)

\* the <url> arguments tried
CliUrls ==
  { <<"http://h", "/", "a">>, <<"http://h">>, <<" ", "http://h">>, <<"mailto:", "a@b">>,
    <<>>, <<"h", "/", "a">>, <<"/", "a">>, <<"http://">> }

\* new URL(url) does not throw (index.js:23): after the blanks around it are
\* dropped the string starts with a scheme and, for http, a host
WellFormed(u) ==
  /\ Trim(u) # <<>>
  /\ Head(Trim(u)) \in {"http://h", "http://o", "http://s", "http://t",
                        "mailto:", "javascript:", "tel:"}

\* runHealthCheck(url, modules) or runLinkChecker(url) is called
CallPageFetch(fn, modules) ==
  /\ entry' = fn
  /\ fpc' = "launch"
  /\ requested' = modules
  /\ toRun' = <<>>
  /\ moduleResults' = <<>>
  /\ outcome' = "none"
  /\ thrown' = None
  /\ pageUrl' = "none"
  /\ UNCHANGED pageBrowser

\* the page fetch is over and its caller goes on
PageFetchOver ==
  /\ entry' = "none"
  /\ fpc' = "idle"
  /\ requested' = <<>>
  /\ toRun' = <<>>
  /\ moduleResults' = <<>>
  /\ thrown' = None
  /\ pageUrl' = "none"
  /\ UNCHANGED <<pageBrowser, outcome>>

CliActionNoExit ==
  /\ cli = "start"
  /\ \E direct \in BOOLEAN :
       IF direct
       THEN /\ cli' = "direct"
            /\ \E modules \in {All} \cup SeqsUpTo(RequestableNames, MaxModules) :
                 CallPageFetch("runHealthCheck", modules)
       ELSE /\ cli' = "prompt"
            /\ UNCHANGED fetchVars
  /\ UNCHANGED <<cliUrl, linkVars, extractVars>>

\* .action(async (url, options) => ...) up to its first await
\* (index.js:20-40 and 87-90)
CliAction ==
  /\ cli = "start"
  /\ IF ~WellFormed(cliUrl)
     THEN /\ cli' = "invalidUrlExit"
          /\ UNCHANGED fetchVars
     ELSE \E direct \in BOOLEAN :
            IF direct
            THEN /\ cli' = "direct"
                 /\ \E modules \in {All} \cup SeqsUpTo(RequestableNames, MaxModules) :
                      CallPageFetch("runHealthCheck", modules)
            ELSE /\ cli' = "prompt"
                 /\ UNCHANGED fetchVars
  /\ UNCHANGED <<cliUrl, linkVars, extractVars>>

\* await runHealthCheck settles in the direct mode: the results are printed,
\* or the catch prints the error and exits (index.js:40-86)
CliDirectEnds ==
  /\ cli = "direct"
  /\ fpc = "end"
  /\ cli' = IF outcome = "returned" THEN "done" ELSE "errorExit"
  /\ PageFetchOver
  /\ UNCHANGED <<cliUrl, linkVars, extractVars>>

\* the answer to the prompt of showMenu and its switch (index.js:112-140)
MenuChoose ==
  /\ cli = "prompt"
  /\ \/ /\ cli' = "healthCheck"
        /\ CallPageFetch("runHealthCheck", All)
     \/ /\ cli' = "linkCheck"
        /\ CallPageFetch("runLinkChecker", <<>>)
     \/ /\ cli' = "exit"
        /\ UNCHANGED fetchVars
  /\ UNCHANGED <<cliUrl, linkVars, extractVars>>

\* runWebHealthCheck or runLinkChecker is over, with its results or its error
\* printed, and showMenu(url) is called again (index.js:127-135)
MenuActionEnds ==
  /\ cli \in {"healthCheck", "linkCheck"}
  /\ fpc = "end"
  /\ cli' = "prompt"
  /\ PageFetchOver
  /\ UNCHANGED <<cliUrl, linkVars, extractVars>>

InitCli ==
  /\ LinkIdle
  /\ cli = "start"
  /\ cliUrl \in CliUrls
  /\ entry = "none" /\ fpc = "idle" /\ pageBrowser = "none" /\ requested = <<>>
  /\ toRun = <<>> /\ moduleResults = <<>> /\ outcome = "none"
  /\ thrown = None /\ pageUrl = "none"
  /\ dom = <<>> /\ pageLinks = <<>>

NextCli ==
  \/ CliAction
  \/ CliDirectEnds
  \/ MenuChoose
  \/ MenuActionEnds
  \/ NextFetch

SpecCli == InitCli /\ [][NextCli]_vars

----------------------------------------------------------------------------
(* Properties *)

Range(s) == {s[i] : i \in DOMAIN s}

AllCalls == UNION {{proc[b][j] : j \in DOMAIN proc[b]} : b \in DOMAIN proc}

DoneCalls == {p \in AllCalls : p.pc = "done"}

NonBlank(href) == \E i \in DOMAIN href : href[i] # " "

DistinctHrefs == {h \in Range(input) : NonBlank(h)}

Occurrences(s, url) == Cardinality({i \in DOMAIN s : s[i].url = url})

HasResponse(p) == p.response # None

TransportFailed(p) == p.error # None

GotPageResponse(p) == p.pageResponse # None /\ p.pageResponse # NullResponse

\* the fallback was tried and gave no page response
FallbackFailed(p) ==
  /\ p.launches > 0
  /\ \/ p.puppeteerError # None
     \/ p.pageResponse = NullResponse

\* C1: when checkLinks returns, the working and the not-working list hold
\* together as many entries as the input has distinct non-blank hrefs, and
\* every such href is in exactly one entry of exactly one list.
C1_NoLinkLostOrDuplicated ==
  cpc = "returned" =>
    LET w == formatted[1].details.links
        n == formatted[2].details.links
    IN /\ Len(w) + Len(n) = Cardinality(DistinctHrefs)
       /\ \A h \in DistinctHrefs : Occurrences(w, h) + Occurrences(n, h) = 1

C1_Witness ==
  /\ cpc = "returned"
  /\ Len(input) > Cardinality(DistinctHrefs)
  /\ Len(formatted[1].details.links) = 1
  /\ Len(formatted[2].details.links) = 1

\* C2: checkLink never rejects and checkLinks never rejects because of it;
\* a call that has ended has a result, and a call whose fallback browser could
\* not be launched ends with a broken result.
C2_CheckLinkNeverThrows ==
  /\ cpc # "rejected"
  /\ \A p \in AllCalls :
       /\ p.pc # "rejected"
       /\ p.pc = "done" => p.result # None
       /\ p.puppeteerError = LaunchError => p.pc = "done" /\ p.result.working = FALSE

C2_Witness ==
  \E p \in DoneCalls : p.puppeteerError = LaunchError /\ TransportFailed(p)

\* C3: a browser is launched for a link exactly when the fast tier answered
\* 400 or 403 or threw, and then exactly once.
C3_FallbackExactlyWhenAmbiguous ==
  \A p \in AllCalls :
    /\ p.launches <= 1
    /\ p.browser # "none" => p.launches = 1
    /\ p.launches = 1 <=>
         \/ HasResponse(p) /\ p.response.status \in {400, 403}
         \/ TransportFailed(p)

C3_Witness ==
  /\ \E p \in DoneCalls : HasResponse(p) /\ p.response.status = 500 /\ p.launches = 0
  /\ \E p \in DoneCalls : HasResponse(p) /\ p.response.status = 403 /\ p.launches = 1

\* C4: a fast-tier status in [200, 400) gives a working result, checked with
\* axios, with that status, whose redirectUrl is the final request URL when it
\* differs from the input URL and null when it does not.
C4_FastTierWorking ==
  \A p \in DoneCalls :
    (HasResponse(p) /\ p.response.status >= 200 /\ p.response.status < 400) =>
      /\ DOMAIN p.result = {"url", "status", "working", "checkedWith", "redirectUrl"}
      /\ p.result.url = p.url
      /\ p.result.working = TRUE
      /\ p.result.checkedWith = "axios"
      /\ p.result.status = p.response.status
      /\ p.response.responseUrl = p.url => p.result.redirectUrl = Null
      /\ p.response.responseUrl # p.url => p.result.redirectUrl = p.response.responseUrl

C4_Witness ==
  /\ \E p \in DoneCalls : HasResponse(p) /\ p.response.status = 200
                          /\ p.result.redirectUrl = UrlR
  /\ \E p \in DoneCalls : HasResponse(p) /\ p.response.status = 304
                          /\ p.result.redirectUrl = Null

HttpStatusText(status) ==
  CASE status = 400 -> <<"HTTP status ", "4", "0", "0">>
    [] status = 403 -> <<"HTTP status ", "4", "0", "3">>
    [] status = 404 -> <<"HTTP status ", "4", "0", "4">>
    [] status = 500 -> <<"HTTP status ", "5", "0", "0">>

\* C5: a fast-tier status >= 400 other than 400 and 403 gives a broken result
\* with that status and the error 'HTTP status {status}'.
C5_FastTierBroken ==
  \A p \in DoneCalls :
    (HasResponse(p) /\ p.response.status >= 400 /\ p.response.status \notin {400, 403}) =>
      /\ p.result.working = FALSE
      /\ p.result.status = p.response.status
      /\ p.result.error = HttpStatusText(p.response.status)

C5_Witness ==
  /\ \E p \in DoneCalls : HasResponse(p) /\ p.response.status = 404
  /\ \E p \in DoneCalls : HasResponse(p) /\ p.response.status = 500

\* C6: whenever the fallback navigation gave a response object, the result is
\* working, checked with puppeteer, with the status of that response and its
\* final URL as redirectUrl when it differs from the input URL, null otherwise.
C6_PageResponseMeansWorking ==
  \A p \in DoneCalls :
    GotPageResponse(p) =>
      /\ p.result.working = TRUE
      /\ p.result.checkedWith = "puppeteer"
      /\ p.result.status = p.pageResponse.status
      /\ p.result.redirectUrl = (IF p.pageResponse.url # p.url THEN p.pageResponse.url ELSE Null)

\* C7: after a fast-tier 400 or 403, a fallback that fails gives a broken
\* result with the fast-tier status and the error 'HTTP status {status}'.
C7_AmbiguousStatusPreserved ==
  \A p \in DoneCalls :
    (HasResponse(p) /\ p.response.status \in {400, 403} /\ FallbackFailed(p)) =>
      /\ p.result.working = FALSE
      /\ p.result.status = p.response.status
      /\ p.result.error = HttpStatusText(p.response.status)

C7_Witness ==
  /\ \E p \in DoneCalls : HasResponse(p) /\ p.response.status = 403
                          /\ p.puppeteerError = LaunchError
  /\ \E p \in DoneCalls : HasResponse(p) /\ p.response.status = 400
                          /\ p.gotoError # None /\ p.puppeteerError = None

FallbackReason(p) ==
  IF p.puppeteerError # None THEN p.puppeteerError.message ELSE p.gotoError.message

\* C8 as stated: after a transport failure of the fast tier, a fallback that
\* fails with an exception gives a broken result whose error is the reason of
\* the fallback's failure.
C8_ReportsFallbackReason ==
  \A p \in DoneCalls :
    (TransportFailed(p) /\ FallbackFailed(p)
       /\ (p.puppeteerError # None \/ p.gotoError # None)) =>
      /\ p.result.working = FALSE
      /\ p.result.error = FallbackReason(p)

\* C8 amended: after a transport failure of the fast tier, a fallback that
\* fails gives a broken result with status 0 whose error is the reason of the
\* fast tier's failure: its error code, or its message when it has no code.
C8_ReportsFastTierReason ==
  \A p \in DoneCalls :
    (TransportFailed(p) /\ FallbackFailed(p)) =>
      /\ p.result.working = FALSE
      /\ p.result.status = 0
      /\ p.error.code = <<"ECONNREFUSED">> => p.result.error = <<"ECONNREFUSED">>
      /\ p.error.code = <<>> => p.result.error = <<"socket hang up">>

C8_Witness ==
  /\ \E p \in DoneCalls : TransportFailed(p) /\ p.error.code = <<"ECONNREFUSED">>
                          /\ p.puppeteerError = LaunchError
  /\ \E p \in DoneCalls : TransportFailed(p) /\ p.error.code = <<>>
                          /\ p.gotoError # None /\ p.browser = "closed"

\* C9: no browser that checkLink launched is open once checkLink has returned.
C9_FallbackBrowserClosed ==
  \A p \in DoneCalls : p.browser # "open"

\* C10: the browser of the page fetch is not open once the fetch has ended,
\* in runHealthCheck and in runLinkChecker.
C10_PageBrowserClosed ==
  fpc = "end" => pageBrowser # "open"

BatchIdle(calls) == \A j \in DOMAIN calls : calls[j].pc = "idle"

BatchDone(calls) == \A j \in DOMAIN calls : calls[j].pc = "done"

Reported(url) ==
  \/ \E i \in DOMAIN results.working : results.working[i].url = url
  \/ \E i \in DOMAIN results.notWorking : results.notWorking[i].url = url

\* C11: no link of a batch starts resolving before every link of the batches
\* before it has completed, and no result of a batch is in the working or the
\* not-working list before every link of that batch has completed.
C11_BatchesRunOneAfterAnother ==
  \A b \in DOMAIN proc :
    /\ ~BatchIdle(proc[b]) => \A a \in 1..(b - 1) : BatchDone(proc[a])
    /\ (\E j \in DOMAIN proc[b] : Reported(proc[b][j].url)) => BatchDone(proc[b])

C11_Witness ==
  /\ Len(batches) = 3
  /\ bi = 2
  /\ cpc = "await"
  /\ \E j \in DOMAIN proc[2] : proc[2][j].pc = "done"
  /\ \E j \in DOMAIN proc[2] : proc[2][j].pc \in {"launch", "newPage", "goto", "close"}
  /\ Len(results.working) + Len(results.notWorking) = batchSize

RECURSIVE Flatten(_)
Flatten(ss) == IF ss = <<>> THEN <<>> ELSE Head(ss) \o Flatten(Tail(ss))

\* C12: a link sequence of length n is split into ceil(n/5) consecutive
\* batches whose concatenation is the sequence; every batch but the last has
\* 5 links and the last has 1 to 5 (12 links: 5, 5, 2; no link: no batch).
C12_BatchesPartitionLinks ==
  cpc # "call" =>
    /\ Len(batches) * batchSize >= Len(links)
    /\ (Len(batches) - 1) * batchSize < Len(links) \/ Len(batches) = 0
    /\ Flatten(batches) = links
    /\ \A b \in DOMAIN batches :
         /\ b < Len(batches) => Len(batches[b]) = batchSize
         /\ b = Len(batches) => Len(batches[b]) \in 1..batchSize
    /\ Len(links) = 12 => Len(batches) = 3 /\ Len(batches[3]) = 2
    /\ Len(links) = 0 => batches = <<>>

C12_Witness ==
  /\ cpc # "call"
  /\ Len(links) = 12
  /\ <<Len(batches[1]), Len(batches[2]), Len(batches[3])>> = <<5, 5, 2>>

\* C13: the calls of a batch after the first are dispatched only when the loop
\* is at that batch, and the loop moves to the next batch only when the timer
\* set after the batch has settled fires.
C13_CooldownBetweenBatches ==
  [][ /\ \A b \in DOMAIN proc :
           (b \in DOMAIN proc' /\ BatchIdle(proc[b]) /\ ~BatchIdle(proc'[b]))
             => (cpc = "loop" /\ bi = b)
      /\ bi' # bi =>
           \/ cpc = "call"
           \/ cpc = "cooldown" /\ bi' = bi + 1 /\ BatchDone(proc[bi]) ]_vars

C13_Witness ==
  /\ Len(batches) >= 2
  /\ bi = 2
  /\ cpc = "await"

\* C14: when every request, launch, navigation, close and timer settles,
\* checkLinks returns, with a result for each of its links, although links of
\* every batch fail in the fast tier or in the fallback.
C14_CheckLinksReturns ==
  <>(cpc = "returned"
       /\ Len(formatted[1].details.links) + Len(formatted[2].details.links) = Len(links))

C14_Witness ==
  /\ cpc = "returned"
  /\ Len(batches) = 3
  /\ proc[1][3].puppeteerError = LaunchError
  /\ proc[1][5].puppeteerError = NewPageError
  /\ proc[2][1].gotoError = GotoError
  /\ Len(formatted[1].details.links) + Len(formatted[2].details.links) = 12

SettledBatches ==
  CASE cpc = "call" -> 0
    [] cpc = "cooldown" -> bi
    [] OTHER -> bi - 1

SettledResults ==
  Flatten([b \in 1..SettledBatches |-> [j \in DOMAIN proc[b] |-> proc[b][j].result]])

ResultWorks(r) == r.working

ResultFails(r) == ~r.working

UrlsOf(rs) == [i \in DOMAIN rs |-> rs[i].url]

SiteLinkWorks(url) ==
  \/ Can(url, "axios.200")
  \/ Can(url, "goto.response")

SiteLinkFails(url) == ~SiteLinkWorks(url)

\* C15: at every moment the working list and the not-working list hold the
\* results of the batches that have settled, each list in the order of the
\* links, whatever the order in which the calls completed; with the answers of
\* every link fixed, the lists at the return are fixed too.
C15_ListsIndependentOfCompletionOrder ==
  /\ results.working = SelectSeq(SettledResults, ResultWorks)
  /\ results.notWorking = SelectSeq(SettledResults, ResultFails)
  /\ cpc = "returned" =>
       /\ UrlsOf(formatted[1].details.links) = SelectSeq(links, SiteLinkWorks)
       /\ UrlsOf(formatted[2].details.links) = SelectSeq(links, SiteLinkFails)

C15_Witness ==
  /\ cpc = "returned"
  /\ Len(batches) >= 2
  /\ Len(formatted[1].details.links) >= 3
  /\ Len(formatted[2].details.links) >= 3

\* C16: a result is working exactly when the fast tier gave a status in
\* [200, 400) or the fallback navigation gave a response object.
C16_WorkingIffStatusOrPageResponse ==
  \A p \in DoneCalls :
    p.result.working <=>
      \/ HasResponse(p) /\ p.response.status >= 200 /\ p.response.status < 400
      \/ GotPageResponse(p)

\* C17: every result of the not-working list has an error that is neither
\* missing nor null nor empty, and no result of the working list has one.
C17_ErrorIffBroken ==
  /\ \A i \in DOMAIN results.notWorking :
       /\ "error" \in DOMAIN results.notWorking[i]
       /\ results.notWorking[i].error \notin {<<>>, Null}
  /\ \A i \in DOMAIN results.working : "error" \notin DOMAIN results.working[i]
  /\ \A p \in DoneCalls : p.result.working <=> "error" \notin DOMAIN p.result

C17_Witness ==
  /\ cpc = "returned"
  /\ \E i \in DOMAIN results.notWorking :
       /\ results.notWorking[i].status = 0
       /\ results.notWorking[i].checkedWith = "both"
  /\ \E i \in DOMAIN results.working : results.working[i].checkedWith = "puppeteer"

FirstSeen(url) == CHOOSE i \in DOMAIN input : input[i] = url /\ \A j \in 1..(i - 1) : input[j] # url

\* C19: the links checkLinks resolves are the distinct non-blank hrefs of the
\* input, each once, in the order in which the input first has them, and
\* there is exactly one checkLink call for each.
C19_LinksDistinctInFirstSeenOrder ==
  cpc # "call" =>
    /\ Range(links) = DistinctHrefs
    /\ \A i, j \in DOMAIN links : i < j => links[i] # links[j]
    /\ \A i, j \in DOMAIN links : i < j => FirstSeen(links[i]) < FirstSeen(links[j])
    /\ \A h \in DistinctHrefs : Cardinality({c \in {<<b, j>> : b \in DOMAIN proc, j \in 1..batchSize} :
                                               /\ c[2] \in DOMAIN proc[c[1]]
                                               /\ proc[c[1]][c[2]].url = h}) = 1

C19_Witness ==
  /\ cpc = "returned"
  /\ input = <<UrlB, UrlA, UrlB>>
  /\ links = <<UrlB, UrlA>>

HandedOver == cpc = "loop"

\* C18: no link that is '#' alone or has the javascript:, mailto: or tel:
\* scheme is among the links checkLinks resolves, whichever function extracted
\* the links of the page.
C18_NoSkippedSchemeResolved ==
  HandedOver =>
    \A i \in DOMAIN links :
      /\ links[i] # <<"#">>
      /\ ~StartsWith(links[i], "javascript:")
      /\ ~StartsWith(links[i], "mailto:")
      /\ ~StartsWith(links[i], "tel:")

\* the anchors the DOM pass of runLinkChecker keeps
DomKept(a) == ~SkipHref(AnchorHref(a))

\* C20: in runLinkChecker the scan of the raw HTML adds no entry for an
\* anchor that the DOM pass has already given an entry: a target found by
\* both passes has a single entry.
C20_BothPassesOneEntry ==
  (entry = "runLinkChecker" /\ fpc # "extract") =>
    \A i \in DOMAIN pageLinks :
      pageLinks[i].source # "dom" =>
        \A k \in DOMAIN dom :
          DomKept(dom[k]) => dom[k].attr \in {Null, <<>>}
                               \/ pageLinks[i].href # MakeAbsolute(dom[k].attr)

\* C22: checkLinks returns two records, 'Working Links' then 'Broken Links';
\* the first has status 'pass', the second 'pass' exactly when the
\* not-working list is empty and 'fail' otherwise, and in each the count is
\* the length of the links.
C22_TwoFormattedRecords ==
  cpc = "returned" =>
    /\ Len(formatted) = 2
    /\ formatted[1].test = "Working Links"
    /\ formatted[2].test = "Broken Links"
    /\ formatted[1].status = "pass"
    /\ formatted[2].status = (IF results.notWorking = <<>> THEN "pass" ELSE "fail")
    /\ formatted[2].status \in {"pass", "fail"}
    /\ formatted[1].details.links = results.working
    /\ formatted[2].details.links = results.notWorking
    /\ \A i \in 1..2 : formatted[i].details.count = Len(formatted[i].details.links)

C22_Witness ==
  /\ cpc = "returned"
  /\ formatted[1].details.count = 1
  /\ formatted[2].details.count = 1
  /\ formatted[2].status = "fail"

CallPositions == {<<b, j>> \in (DOMAIN proc) \X (1..batchSize) : j \in DOMAIN proc[b]}

CallAt(c) == proc[c[1]][c[2]]

\* C23: no two calls of checkLink hold the same browser session, and the page
\* and the browser of the page fetch stay as the page fetch left them while
\* checkLinks runs.
C23_OwnBrowserSession ==
  /\ \A c, d \in CallPositions :
       (c # d /\ CallAt(c).session # <<>>) => CallAt(c).session # CallAt(d).session
  /\ pageBrowser = "open"
  /\ pageUrl = "original"

C23_Witness ==
  \E c, d \in CallPositions :
    /\ c # d
    /\ c[1] = d[1]
    /\ CallAt(c).browser = "open" /\ CallAt(c).pc = "goto"
    /\ CallAt(d).browser = "open" /\ CallAt(d).pc = "goto"

InFlight == {c \in CallPositions : CallAt(c).pc \notin {"idle", "done", "rejected"}}

OpenSessions == {c \in CallPositions : CallAt(c).browser = "open"}

\* C27: at most 5 calls of checkLink are in flight, and at most 5 browsers
\* launched by them are open.
C27_AtMostFiveOpen ==
  /\ Cardinality(InFlight) <= batchSize
  /\ Cardinality(OpenSessions) <= batchSize

\* C28: a result has checkedWith 'axios' only if no browser was launched for
\* the link, 'puppeteer' only if the navigation of the fallback gave the
\* response that made it working, and 'both' whenever a browser was launched
\* and the link is broken.
C28_CheckedWithTellsTiers ==
  \A p \in DoneCalls :
    /\ p.result.checkedWith = "axios" => p.launches = 0
    /\ p.result.checkedWith = "puppeteer" => GotPageResponse(p) /\ p.result.working
    /\ (p.launches > 0 /\ ~p.result.working) => p.result.checkedWith = "both"

RequestedAndLoadable == {n \in Range(requested) : ModuleExists(n)}

\* C24: for a list of requested names loadModules gives the requested names
\* that have a module, each once; a name without a module neither makes it
\* throw nor keeps the other requested modules from being loaded and run.
C24_LoadsRequestedModulesThatExist ==
  (entry = "runHealthCheck" /\ requested # All) =>
    /\ fpc = "modules" =>
         /\ Range(moduleResults \o toRun) = RequestedAndLoadable
         /\ Len(moduleResults \o toRun) = Cardinality(RequestedAndLoadable)
         /\ thrown = None
    /\ outcome = "returned" => Range(moduleResults) = RequestedAndLoadable

C24_Witness ==
  /\ requested = <<"missing", "basicSeo">>
  /\ outcome = "returned"
  /\ moduleResults = <<"basicSeo">>

\* C25: whenever a module of runHealthCheck has returned, the shared page is
\* on the URL that was loaded.
C25_PageOnLoadedUrl ==
  (entry = "runHealthCheck" /\ fpc = "modules") => pageUrl = "original"

\* a module has thrown: the loop stopped with modules left to run
ModuleThrew ==
  entry = "runHealthCheck" /\ fpc \in {"finallyThrow", "end"} /\ toRun # <<>>

\* C29 as stated: when a module throws, runHealthCheck rejects with the error
\* of the module and the browser is closed.
C29_RejectsWithModuleError ==
  (ModuleThrew /\ fpc = "end") =>
    /\ outcome = "rejected"
    /\ thrown = ModuleError(Head(toRun))
    /\ pageBrowser = "closed"

\* C29 amended: when a module throws, no later module runs, browser.close is
\* called and runHealthCheck rejects, never returning the results; it rejects
\* with the error of the module and the browser is closed unless
\* browser.close itself rejects, and then it rejects with that error.
C29_RejectsAfterClose ==
  /\ ModuleThrew =>
       /\ outcome # "returned"
       /\ Len(moduleResults) + Len(toRun) = Len(LoadModules(requested))
       /\ fpc = "finallyThrow" => thrown = ModuleError(Head(toRun)) /\ pageBrowser = "open"
       /\ fpc = "end" =>
            /\ outcome = "rejected"
            /\ \/ thrown = ModuleError(Head(toRun)) /\ pageBrowser = "closed"
               \/ thrown = CloseError
  /\ (entry = "runHealthCheck" /\ outcome = "returned") => toRun = <<>>

C29_Witness ==
  /\ ModuleThrew
  /\ fpc = "end"
  /\ moduleResults # <<>>
  /\ Len(toRun) >= 2
  /\ thrown = ModuleError(Head(toRun))
  /\ pageBrowser = "closed"

\* C21: when the URL of the command line is not well formed the action ends
\* at the exit that follows the report, with no browser launched, no page
\* fetch and no link check started and the menu not shown.
C21_InvalidUrlExitsFirst ==
  ~WellFormed(cliUrl) =>
    /\ cli \in {"start", "invalidUrlExit"}
    /\ pageBrowser = "none"
    /\ entry = "none" /\ fpc = "idle"
    /\ cpc = "idle"

C21_Witness ==
  /\ cli = "invalidUrlExit"
  /\ cliUrl = <<"h", "/", "a">>

\* C30: when the menu is shown, no browser that a menu action opened is open.
C30_NoBrowserOpenAtMenu ==
  cli = "prompt" => pageBrowser # "open"

\* C26: every link the extraction of runLinkChecker produces has an absolute
\* URL, with its scheme and its host.
C26_ExtractedUrlsAbsolute ==
  (entry = "runLinkChecker" /\ fpc # "extract") =>
    \A i \in DOMAIN pageLinks : StartsWithHttp(pageLinks[i].href)

====
